---- MODULE Spec2Model ----
(***************************************************************************)
(* The paginated Pokemon list of ihorizons-frontend-task: the list         *)
(* coordinator (the usePokemonList hook and the Home page's inline copy of *)
(* it), the localStorage cache helpers it persists to, and the data-fetch  *)
(* collaborator (useGetPokemonListQuery) it drives through the skip flag,  *)
(* and the visibility trigger (useInfiniteScroll and the Home page's       *)
(* inline observer) that calls loadMoreData when the sentinel is seen;     *)
(* and the ErrorBoundary component around the page.                        *)
(*                                                                         *)
(* Spec is the coordinator on its own; SpecCached adds the collaborator's  *)
(* response cache, SpecFaulty a localStorage that fails, SpecScroll the    *)
(* Home page with the trigger, SpecVisible that page left alone with the   *)
(* sentinel in view (with fairness), SpecBoundary the error boundary.      *)
(*                                                                         *)
(* Strings that the code takes apart (resource URLs) are sequences of      *)
(* one-character strings.  Numbers are integers; the two non-integers the  *)
(* code can produce, NaN (parseInt of a segment without leading digits)    *)
(* and null (JSON.stringify of NaN), are the negative integers NaN and     *)
(* JsonNull, which parseInt cannot produce from the URLs of the model (no  *)
(* URL holds a sign).                                                      *)
(***************************************************************************)
EXTENDS Integers, Sequences, FiniteSets, TLC

\* ---------------------------------------------------------------- bounds
\* loadMore is not invoked in the model once currentOffset has reached
\* MaxPages * ITEMS_PER_PAGE.
MaxPages == 2
\* The entries an observer queues before the browser delivers them.
MaxEntries == 2

\* ------------------------------------------------------ program constants
ITEMS_PER_PAGE == 20
CACHE_DURATION == 5 * 60 * 1000

NaN == -1
JsonNull == -2
\* Date.now() when the session starts: any instant later than CACHE_DURATION.
StartTime == 2 * CACHE_DURATION

\* null of the code (no error, no next cursor)
Null == "null"

\* ------------------------------------------------------------------ URLs
\* "p/1/" stands for "https://pokeapi.co/api/v2/pokemon/1/": the host part is
\* shortened, the last two "/"-delimited segments are kept.
UrlOf(idText) == <<"p", "/">> \o idText \o <<"/">>
\* A resource URL without the trailing slash: its second-to-last segment is
\* not the id.
UrlNoSlash(idText) == <<"p", "/">> \o idText

\* The catalogue: two well-formed resources and one whose URL lacks the
\* trailing slash.
Resources ==
  { [name |-> "bulbasaur", url |-> UrlOf(<<"1">>)],
    [name |-> "ivysaur", url |-> UrlOf(<<"2">>)],
    [name |-> "missingno", url |-> UrlNoSlash(<<"4">>)] }

\* String.prototype.split("/"): the segments between the separators.
RECURSIVE SplitFrom(_, _, _, _)
SplitFrom(s, i, cur, acc) ==
  IF i > Len(s) THEN Append(acc, cur)
  ELSE IF s[i] = "/" THEN SplitFrom(s, i + 1, <<>>, Append(acc, cur))
  ELSE SplitFrom(s, i + 1, Append(cur, s[i]), acc)

Split(s) == SplitFrom(s, 1, <<>>, <<>>)

DigitChars == <<"0", "1", "2", "3", "4", "5", "6", "7", "8", "9">>
IsDigit(c) == \E d \in 1..10 : DigitChars[d] = c
DigitVal(c) == (CHOOSE d \in 1..10 : DigitChars[d] = c) - 1

\* parseInt(text): the value of the longest prefix of decimal digits, NaN when
\* the text does not start with a digit.
RECURSIVE ParseDigits(_, _, _)
ParseDigits(text, i, acc) ==
  IF i > Len(text) \/ ~IsDigit(text[i]) THEN acc
  ELSE ParseDigits(text, i + 1, acc * 10 + DigitVal(text[i]))

ParseInt(text) ==
  IF Len(text) = 0 \/ ~IsDigit(text[1]) THEN NaN ELSE ParseDigits(text, 1, 0)

\* results.map(result => ({ id: parseInt(urlParts[urlParts.length - 2]), name }))
ToCached(result) ==
  LET urlParts == Split(result.url)
  IN [id |-> ParseInt(urlParts[Len(urlParts) - 1]), name |-> result.name]

ParsePage(results) == [i \in 1..Len(results) |-> ToCached(results[i])]


\* ------------------------------------------------------------ fetch inputs
\* The results arrays a response can carry: empty, one resource, or any two
\* resources in either order, the same resource twice included.
ResultSeqs ==
  {<<>>} \cup {<<a>> : a \in Resources} \cup {<<a, b>> : a, b \in Resources}

\* The PokemonListResponse values the collaborator can deliver: results and the
\* next cursor (count and previous are never read by the coordinator).
Pages == [results : ResultSeqs, next : {Null, "next"}]

\* The errors a request can be rejected with (the status of fetchBaseQuery's
\* error): no response, a response that is not JSON, an HTTP error status.
QueryErrors == {"FETCH_ERROR", "PARSING_ERROR", "500"}

\* The instants at which the clock is read, from the start of the session: the
\* last instant at which data fetched at StartTime is still fresh, and the
\* first at which it is stale.
Instants ==
  {StartTime, StartTime + CACHE_DURATION - 1, StartTime + CACHE_DURATION}

\* ----------------------------------------------------------------- state
VARIABLES
  coordinator,      \* which copy of the coordinator runs: "usePokemonList" or "Home"
  phase,            \* "mounting" before the mount effect has run, then "mounted"
  allPokemon,       \* useState<CachedPokemon[]>
  paginationState,  \* useState<PaginationState>
  currentOffset,    \* useState<number>
  skipQuery,        \* useState(true): the fetch gate, closed when TRUE
  isInitialLoading, \* useState(true)
  error,            \* useState<string | null>
  isLoadingMore,    \* useState(false)
  pokemonListData,  \* the query hook's data: <<>> (undefined) or <<page>>
  queryError,       \* the query hook's error: Null (undefined) or its status
  isFetching,       \* the query hook's isFetching
  fetchArgs,        \* offset of the request the collaborator issued last, -1 if none
  superseded,       \* offsets of requests still on their way whose arguments
                    \* are no longer those of the query hook
  store,            \* localStorage: each key holds <<>> (no item) or <<value>>
  storageFault,     \* what is wrong with localStorage, "none" if nothing
  now,              \* Date.now()
  lastOp,           \* history: the coordinator operation that ran last (and the
                    \* branch the mount effect took)
  trigger,          \* the visibility trigger: observerRef and its observer
  onIntersectRef,   \* onIntersectRef / loadMoreDataRef: the callback in the ref
  sentinelVisible,  \* the sentinel's place intersects the viewport
  boundary          \* the ErrorBoundary instance around the page

vars ==
  <<coordinator, phase, allPokemon, paginationState, currentOffset, skipQuery,
    isInitialLoading, error, isLoadingMore, pokemonListData, queryError,
    isFetching, fetchArgs, superseded, store, storageFault, now, lastOp, trigger,
    onIntersectRef, sentinelVisible, boundary>>

triggerVars == <<trigger, onIntersectRef, sentinelVisible>>

\* Everything but the error boundary.
pageVars ==
  <<coordinator, phase, allPokemon, paginationState, currentOffset, skipQuery,
    isInitialLoading, error, isLoadingMore, pokemonListData, queryError,
    isFetching, fetchArgs, superseded, store, storageFault, now, lastOp, trigger,
    onIntersectRef, sentinelVisible>>

\* The coordinator's own state (everything loadMore could touch).
coordinatorVars ==
  <<allPokemon, paginationState, currentOffset, skipQuery, isInitialLoading,
    error, isLoadingMore, store>>

ZeroPagination ==
  [currentPage |-> 0, totalLoaded |-> 0, hasMore |-> TRUE, lastFetchTime |-> 0]

\* ---------------------------------------------------------- ErrorBoundary
\* Re-renders of one boundary instance the model follows.
MaxRenders == 3

\* The children the tests give the boundary: WorkingComponent, and ThrowError
\* with its props shouldThrow and errorMessage.
NoChildren == [component |-> "none", shouldThrow |-> FALSE, errorMessage |-> ""]

ChildElements ==
  {[component |-> "WorkingComponent", shouldThrow |-> FALSE, errorMessage |-> ""]}
    \cup [component : {"ThrowError"}, shouldThrow : BOOLEAN,
          errorMessage : {"Test error", "Custom error message"}]

NodeEnvs == {"development", "production", "test"}

\* What rendering the children throws: Null if nothing.
Thrown(children) ==
  IF children.shouldThrow THEN children.errorMessage ELSE Null

\* this.state = { hasError: false }
InitialState == [hasError |-> FALSE, error |-> Null]

GetDerivedStateFromError(err) == [hasError |-> TRUE, error |-> err]

\* Mutant: new children make the boundary start again.
StateOnRerender_ResetOnNewChildren(state, prevChildren, children) ==
  IF children # prevChildren THEN InitialState ELSE state

\* The state with which a re-render starts: the class has no
\* getDerivedStateFromProps and no componentDidUpdate, and nothing calls
\* setState, so it is the state the instance had.
StateOnRerender(state, prevChildren, children) == state

\* One render pass of the boundary: the children are rendered only while
\* hasError is false, and what they throw goes to getDerivedStateFromError.
RenderPass(state, children) ==
  IF ~state.hasError /\ Thrown(children) # Null
  THEN GetDerivedStateFromError(Thrown(children))
  ELSE state

\* render(): the alert, with the error's text in development, or the children.
Render(state, nodeEnv) ==
  IF state.hasError
  THEN [shown |-> "alert",
        details |-> IF nodeEnv = "development" /\ state.error # Null
                    THEN state.error ELSE Null]
  ELSE [shown |-> "children", details |-> Null]

NoBoundary ==
  [mounted |-> FALSE, state |-> InitialState, children |-> NoChildren,
   nodeEnv |-> "production", output |-> [shown |-> "nothing", details |-> Null],
   renders |-> 0, logged |-> 0]

\* A render of the instance with the given state and children, commit included.
Committed(b, state, children) ==
  [b EXCEPT !.state = RenderPass(state, children),
            !.children = children,
            !.output = Render(RenderPass(state, children), b.nodeEnv),
            !.renders = @ + 1,
            !.logged = IF RenderPass(state, children) # state THEN @ + 1 ELSE @]

\* <ErrorBoundary>{children}</ErrorBoundary> is mounted: a new instance.
BoundaryMount(children, nodeEnv) ==
  /\ ~boundary.mounted
  /\ boundary' = Committed([NoBoundary EXCEPT !.mounted = TRUE, !.nodeEnv = nodeEnv],
                           InitialState, children)
  /\ UNCHANGED pageVars

\* rerender(...): the same instance is rendered again, with the same or with
\* other children.
BoundaryRerender(children) ==
  /\ boundary.mounted
  /\ boundary.renders < MaxRenders
  /\ boundary' = Committed(boundary,
                           StateOnRerender(boundary.state, boundary.children, children),
                           children)
  /\ UNCHANGED pageVars

\* The boundary is unmounted: the instance and its state are gone.
BoundaryUnmount ==
  /\ boundary.mounted
  /\ boundary' = NoBoundary
  /\ UNCHANGED pageVars

\* ------------------------------------------------------------ localStorage
\* JSON.stringify then JSON.parse of a CachedPokemon[]: a NaN id is written as
\* null and read back as null; integers and strings come back unchanged.
JsonNumber(n) == IF n = NaN THEN JsonNull ELSE n
JsonOfList(list) ==
  [i \in 1..Len(list) |-> [id |-> JsonNumber(list[i].id), name |-> list[i].name]]
JsonOfPagination(s) ==
  [currentPage |-> JsonNumber(s.currentPage),
   totalLoaded |-> JsonNumber(s.totalLoaded),
   hasMore |-> s.hasMore,
   lastFetchTime |-> JsonNumber(s.lastFetchTime)]

\* What can be wrong with localStorage: the list no longer fits in the quota
\* (setItem of the list throws, the small pagination item is still written),
\* the quota is exhausted (every setItem throws), or storage is unavailable
\* (every access throws).
StorageFaults == {"list over quota", "quota exceeded", "unavailable"}

\* An item whose text is not JSON (JSON.parse throws), one value per key, of
\* the shape of the key's values; no save of the model writes either.
MalformedListText == <<[id |-> JsonNull, name |-> "{"]>>
MalformedPaginationText ==
  [currentPage |-> JsonNull, totalLoaded |-> JsonNull, hasMore |-> FALSE,
   lastFetchTime |-> JsonNull]

\* Mutant: the item is returned as it is read, nothing is caught.
LoadPokemonList_NoCatch(st) == st.pokemons

\* loadPokemonList / loadPaginationState: <<>> is undefined, returned when
\* getItem gives null and when getItem or JSON.parse throws.
LoadPokemonList(st) ==
  IF storageFault = "unavailable" \/ st.pokemons = <<MalformedListText>>
  THEN <<>>
  ELSE st.pokemons
LoadPaginationState(st) ==
  IF storageFault = "unavailable"
     \/ st.pokemon_pagination = <<MalformedPaginationText>>
  THEN <<>>
  ELSE st.pokemon_pagination

\* savePokemonList / savePaginationState: a setItem that throws leaves the
\* item as it was.
SavePokemonList(st, list) ==
  IF storageFault \in StorageFaults
  THEN st
  ELSE [st EXCEPT !.pokemons = <<JsonOfList(list)>>]
SavePaginationState(st, s) ==
  IF storageFault \in {"quota exceeded", "unavailable"}
  THEN st
  ELSE [st EXCEPT !.pokemon_pagination = <<JsonOfPagination(s)>>]

\* Mutant: the helpers have no try/catch, a setItem that throws is rethrown.
SaveFailurePropagates_NoCatch == storageFault \in StorageFaults

\* catch (error) { console.warn(...) }: the helpers swallow the exception.
SaveFailurePropagates == FALSE

\* Mutant: only the list key is removed.
ClearPokemonData_ListOnly(st) == [st EXCEPT !.pokemons = <<>>]

\* clearPokemonData: both keys are removed; a removeItem that throws leaves
\* the items as they were.
ClearPokemonData(st) ==
  IF storageFault = "unavailable"
  THEN st
  ELSE [pokemons |-> <<>>, pokemon_pagination |-> <<>>]

\* ------------------------------------------------------- fetch collaborator
\* useGetPokemonListQuery({offset, limit}, {skip}): un-gating (skip false)
\* makes it issue the request for the current offset; isFetching is true from
\* then until the request settles.
QueryIssued(offset) ==
  /\ isFetching' = TRUE
  /\ queryError' = Null
  /\ fetchArgs' = offset
  /\ superseded' = (IF isFetching /\ fetchArgs # offset
                    THEN superseded \cup {fetchArgs}
                    ELSE superseded) \ {offset}
  /\ UNCHANGED pokemonListData

QueryIdle == UNCHANGED <<isFetching, queryError, fetchArgs, superseded, pokemonListData>>

\* Mutant: the request in flight stays the hook's request when the offset
\* changes.
QueryAfter_KeepsRequest(newSkip, newOffset) ==
  IF ~newSkip /\ (skipQuery \/ ~isFetching)
  THEN QueryIssued(newOffset)
  ELSE QueryIdle

\* The hook after a state change: a request is issued when the gate opens, or
\* when the offset changes while the gate is open (the request that was in
\* flight is then superseded); an open gate with the same offset keeps the
\* request already in flight.
QueryAfter(newSkip, newOffset) ==
  IF ~newSkip /\ (skipQuery \/ newOffset # currentOffset \/ ~isFetching)
  THEN QueryIssued(newOffset)
  ELSE QueryIdle

\* The response of a superseded request arrives: the collaborator keeps it in
\* its cache under the request's arguments; the query hook, whose arguments
\* are others, returns what it returned before, so no effect of the
\* coordinator runs.
SupersededSettles(page, offset) ==
  /\ offset \in superseded
  /\ superseded' = superseded \ {offset}
  /\ lastOp' = "supersededSettled"
  /\ UNCHANGED <<coordinator, phase, allPokemon, paginationState, currentOffset,
                 skipQuery, isInitialLoading, error, isLoadingMore,
                 pokemonListData, queryError, isFetching, fetchArgs, store,
                 storageFault, now>>

\* loadMoreData as a render creates it (useCallback): the values it closes over.
LoadMoreClosure ==
  [currentOffset |-> currentOffset,
   hasMore |-> paginationState.hasMore,
   isFetching |-> isFetching,
   skipQuery |-> skipQuery,
   isInitialLoading |-> isInitialLoading,
   isLoadingMore |-> isLoadingMore]

\* ------------------------------------------------------------ Init
Init ==
  /\ coordinator \in {"usePokemonList", "Home"}
  /\ phase = "mounting"
  /\ allPokemon = <<>>
  /\ paginationState = ZeroPagination
  /\ currentOffset = 0
  /\ skipQuery = TRUE
  /\ isInitialLoading = TRUE
  /\ error = Null
  /\ isLoadingMore = FALSE
  /\ pokemonListData = <<>>
  /\ queryError = Null
  /\ isFetching = FALSE
  /\ fetchArgs = -1
  /\ superseded = {}
  /\ store = [pokemons |-> <<>>, pokemon_pagination |-> <<>>]
  /\ storageFault = "none"
  /\ now = StartTime
  /\ lastOp = "none"
  /\ onIntersectRef = LoadMoreClosure
  /\ trigger = [observerRef |-> "null", connected |-> 0, hasCleanup |-> FALSE,
                entries |-> <<>>, observed |-> FALSE,
                subscribedWith |-> LoadMoreClosure, started |-> 0,
                invoked |-> 0]
  /\ sentinelVisible = TRUE
  /\ boundary = NoBoundary

\* ------------------------------------------------------------ initialize()
\* Mutant: a cache of exactly CACHE_DURATION still counts as fresh.
IsCacheValid_Inclusive(cachedPagination, t) ==
  t - cachedPagination.lastFetchTime <= CACHE_DURATION

IsCacheValid(cachedPagination, t) ==
  t - cachedPagination.lastFetchTime < CACHE_DURATION

CacheUsable(st, t) ==
  /\ LoadPokemonList(st) # <<>>
  /\ LoadPaginationState(st) # <<>>
  /\ IsCacheValid(LoadPaginationState(st)[1], t)

\* Mutant: the cached page number is taken as the offset.
RestoredOffset_NoScale(cachedPagination) == cachedPagination.currentPage

\* const restoredOffset = cachedPagination.currentPage * ITEMS_PER_PAGE
RestoredOffset(cachedPagination) == cachedPagination.currentPage * ITEMS_PER_PAGE

\* The mount effect ("Load cached data on mount").
Initialize ==
  /\ phase = "mounting"
  /\ phase' = "mounted"
  /\ LET cachedPokemon == LoadPokemonList(store)
         cachedPagination == LoadPaginationState(store)
     IN IF CacheUsable(store, now)
        THEN /\ allPokemon' = cachedPokemon[1]
             /\ paginationState' = cachedPagination[1]
             /\ currentOffset' = RestoredOffset(cachedPagination[1])
             /\ isInitialLoading' = FALSE
             /\ lastOp' = "initialize: cache used"
             /\ UNCHANGED <<skipQuery, store>>
             /\ QueryAfter(skipQuery, currentOffset')
        ELSE /\ store' = IF cachedPokemon # <<>> /\ cachedPagination # <<>>
                         THEN ClearPokemonData(store)
                         ELSE store
             /\ lastOp' = IF cachedPokemon # <<>> /\ cachedPagination # <<>>
                          THEN "initialize: cache cleared"
                          ELSE "initialize: no cache"
             /\ currentOffset' = 0
             /\ skipQuery' = FALSE
             /\ isInitialLoading' = FALSE
             /\ UNCHANGED <<allPokemon, paginationState>>
             /\ QueryAfter(FALSE, 0)
  /\ UNCHANGED <<storageFault, coordinator, error, isLoadingMore, now>>

\* ------------------------------------------------- onFetchSettled (success)
\* The ids already in the list: new Set(prev.map((p) => p.id)).
ExistingIds(prev) == {prev[i].id : i \in 1..Len(prev)}

\* Mutant: the page is appended without the filter.
UniqueNewPokemon_NoFilter(prev, newPokemon) == newPokemon

\* newPokemon.filter((p) => !existingIds.has(p.id))
UniqueNewPokemon(prev, newPokemon) ==
  SelectSeq(newPokemon, LAMBDA p : p.id \notin ExistingIds(prev))

\* Mutant: the filter of the append branch is applied to the offset-0 page as
\* well, each id kept once.
RECURSIVE KeepFirstOfEachId(_, _)
KeepFirstOfEachId(kept, rest) ==
  IF rest = <<>> THEN kept
  ELSE IF Head(rest).id \in {kept[i].id : i \in 1..Len(kept)}
       THEN KeepFirstOfEachId(kept, Tail(rest))
       ELSE KeepFirstOfEachId(Append(kept, Head(rest)), Tail(rest))

MergedList_FiltersFirstPage(prev, newPokemon, offset) ==
  IF offset = 0 THEN KeepFirstOfEachId(<<>>, newPokemon)
  ELSE prev \o UniqueNewPokemon(prev, newPokemon)

\* The list after the merge: replaced at offset 0, appended to otherwise.
MergedList(prev, newPokemon, offset) ==
  IF offset = 0 THEN newPokemon ELSE prev \o UniqueNewPokemon(prev, newPokemon)

\* totalLoaded as each copy of the coordinator computes it at offset > 0: the
\* hook counts the unique new items, the Home page every item of the page.
TotalLoaded(who, prev, newPokemon, offset) ==
  IF offset = 0 THEN Len(newPokemon)
  ELSE IF who = "Home" THEN Len(prev) + Len(newPokemon)
  ELSE Len(prev) + Len(UniqueNewPokemon(prev, newPokemon))

HasMore(page) == page.next # Null

\* Mutant: the offset itself is stored as the page number.
CurrentPage_NoDivision(offset) == offset

CurrentPage(offset) == IF offset = 0 THEN 0 ELSE offset \div ITEMS_PER_PAGE

NewPaginationState(who, prev, newPokemon, page, offset, t) ==
  [currentPage |-> CurrentPage(offset),
   totalLoaded |-> TotalLoaded(who, prev, newPokemon, offset),
   hasMore |-> HasMore(page),
   lastFetchTime |-> t]

\* The request in flight is fulfilled with page; the "Handle query result"
\* effect then runs with the current offset.  An exception that left the
\* effect would discard its updates and unmount the component.
FetchFulfilled(page) ==
  /\ isFetching
  /\ lastOp' = "fetchFulfilled"
  /\ pokemonListData' = <<page>>
  /\ isFetching' = FALSE
  /\ queryError' = Null
  /\ IF SaveFailurePropagates
     THEN /\ phase' = "crashed"
          /\ UNCHANGED <<allPokemon, paginationState, store, skipQuery, error,
                         isLoadingMore>>
     ELSE /\ LET newPokemon == ParsePage(page.results)
                 updatedList == MergedList(allPokemon, newPokemon, currentOffset)
                 newPaginationState ==
                   NewPaginationState(coordinator, allPokemon, newPokemon, page,
                                      currentOffset, now)
             IN /\ allPokemon' = updatedList
                /\ paginationState' = newPaginationState
                /\ store' = SavePaginationState(
                              SavePokemonList(store, updatedList),
                              newPaginationState)
          /\ skipQuery' = TRUE
          /\ error' = Null
          /\ isLoadingMore' = FALSE
          /\ UNCHANGED phase
  /\ UNCHANGED <<storageFault, coordinator, currentOffset, isInitialLoading,
                 fetchArgs, superseded, now>>

\* -------------------------------------------------- onFetchFailed
\* Mutant: the status of the error is shown.
ErrorMessage_OfError == queryError'

ErrorMessage == "Failed to fetch Pokemon data"

\* Mutant: the failure handler also empties the list and the cache.
FetchRejected_ClearsData(err) ==
  /\ isFetching
  /\ lastOp' = "fetchRejected"
  /\ isFetching' = FALSE
  /\ queryError' = err
  /\ error' = ErrorMessage
  /\ skipQuery' = TRUE
  /\ isLoadingMore' = FALSE
  /\ allPokemon' = <<>>
  /\ paginationState' = ZeroPagination
  /\ store' = ClearPokemonData(store)
  /\ UNCHANGED <<storageFault, coordinator, phase, currentOffset,
                 isInitialLoading, pokemonListData, fetchArgs, superseded, now>>

\* The request in flight is rejected with err; the "Handle query errors"
\* effect runs.
FetchRejected(err) ==
  /\ isFetching
  /\ lastOp' = "fetchRejected"
  /\ isFetching' = FALSE
  /\ queryError' = err
  /\ error' = ErrorMessage
  /\ skipQuery' = TRUE
  /\ isLoadingMore' = FALSE
  /\ UNCHANGED <<storageFault, coordinator, phase, allPokemon, paginationState, currentOffset,
                 isInitialLoading, pokemonListData, fetchArgs, superseded, store, now>>

\* ------------------------------------------------------------ loadMore()
\* Mutant: the hasMore test is missing.
LoadMoreGuard_IgnoresHasMore ==
  /\ ~isFetching
  /\ ~isLoadingMore
  /\ skipQuery
  /\ ~isInitialLoading

LoadMoreGuard ==
  /\ ~isFetching
  /\ ~isLoadingMore
  /\ paginationState.hasMore
  /\ skipQuery
  /\ ~isInitialLoading

\* Mutant: the offset advances by one item instead of one page.
NextOffset_ByOne(offset) == offset + 1

NextOffset(offset) == offset + ITEMS_PER_PAGE

\* Mutant: the guards are not tested.
LoadMoreBody_Unguarded ==
  /\ isLoadingMore' = TRUE
  /\ currentOffset' = NextOffset(currentOffset)
  /\ skipQuery' = FALSE
  /\ QueryAfter(FALSE, currentOffset')

\* The body of loadMoreData, shared with handleRetryLoadMore.
LoadMoreBody ==
  IF LoadMoreGuard
  THEN /\ isLoadingMore' = TRUE
       /\ currentOffset' = NextOffset(currentOffset)
       /\ skipQuery' = FALSE
       /\ QueryAfter(FALSE, currentOffset')
  ELSE /\ UNCHANGED <<isLoadingMore, currentOffset, skipQuery>>
       /\ QueryIdle

LoadMoreData ==
  /\ currentOffset < MaxPages * ITEMS_PER_PAGE
  /\ lastOp' = "loadMoreData"
  /\ LoadMoreBody
  /\ UNCHANGED <<storageFault, coordinator, phase, allPokemon, paginationState,
                 isInitialLoading, error, store, now>>

\* ------------------------------------------------------------ refresh()
HandleRefresh ==
  /\ phase = "mounted"
  /\ lastOp' = "handleRefresh"
  /\ store' = ClearPokemonData(store)
  /\ allPokemon' = <<>>
  /\ paginationState' = ZeroPagination
  /\ error' = Null
  /\ currentOffset' = 0
  /\ skipQuery' = FALSE
  /\ isLoadingMore' = FALSE
  /\ QueryAfter(FALSE, 0)
  /\ UNCHANGED <<storageFault, coordinator, phase, isInitialLoading, now>>

\* The collaborator as pokemonApi configures it (createApi with the default
\* cache behaviour: no refetchOnMountOrArgChange, no forced refetch): a
\* response it still holds for the arguments of the un-gated query is served
\* from its cache, no request is issued.  The model lets it hold the response
\* of the request it fulfilled last.
ResponseCached(offset) ==
  /\ pokemonListData # <<>>
  /\ queryError = Null
  /\ ~isFetching
  /\ fetchArgs = offset

\* handleRefresh while the collaborator holds the response for offset 0 and
\* the offset is 0 already: data, isFetching, error and currentOffset, the
\* dependencies of the "Handle query result" effect, are what they were, so
\* the effect does not run again.
HandleRefreshCached ==
  /\ phase = "mounted"
  /\ ResponseCached(0)
  /\ currentOffset = 0
  /\ lastOp' = "handleRefresh"
  /\ store' = ClearPokemonData(store)
  /\ allPokemon' = <<>>
  /\ paginationState' = ZeroPagination
  /\ error' = Null
  /\ currentOffset' = 0
  /\ skipQuery' = FALSE
  /\ isLoadingMore' = FALSE
  /\ QueryIdle
  /\ UNCHANGED <<storageFault, coordinator, phase, isInitialLoading, now>>

\* ------------------------------------------------------- retryLoadMore()
HandleRetryLoadMore ==
  /\ phase = "mounted"
  /\ currentOffset < MaxPages * ITEMS_PER_PAGE
  /\ lastOp' = "handleRetryLoadMore"
  /\ error' = Null
  /\ LoadMoreBody
  /\ UNCHANGED <<storageFault, coordinator, phase, allPokemon, paginationState,
                 isInitialLoading, store, now>>

\* ------------------------------------------------------------ environment
\* Time passes.
Tick ==
  /\ \E t \in Instants : t > now /\ now' = t
  /\ UNCHANGED lastOp
  /\ UNCHANGED <<storageFault, coordinator, phase, allPokemon, paginationState, currentOffset,
                 skipQuery, isInitialLoading, error, isLoadingMore,
                 pokemonListData, queryError, isFetching, fetchArgs, superseded, store>>

\* The page is reloaded: the component is constructed anew, localStorage stays.
Reload ==
  /\ phase = "mounted"
  /\ phase' = "mounting"
  /\ lastOp' = "reload"
  /\ allPokemon' = <<>>
  /\ paginationState' = ZeroPagination
  /\ currentOffset' = 0
  /\ skipQuery' = TRUE
  /\ isInitialLoading' = TRUE
  /\ error' = Null
  /\ isLoadingMore' = FALSE
  /\ pokemonListData' = <<>>
  /\ queryError' = Null
  /\ isFetching' = FALSE
  /\ fetchArgs' = -1
  /\ superseded' = {}
  /\ UNCHANGED <<storageFault, coordinator, store, now>>

\* Before the page is loaded, localStorage has started or stopped failing.
StorageFaultChanges ==
  /\ phase = "mounting"
  /\ \E f \in StorageFaults \cup {"none"} : f # storageFault /\ storageFault' = f
  /\ UNCHANGED <<coordinator, phase, allPokemon, paginationState, currentOffset,
                 skipQuery, isInitialLoading, error, isLoadingMore,
                 pokemonListData, queryError, isFetching, fetchArgs, superseded, store, now,
                 lastOp, triggerVars, boundary>>

\* Before the page is loaded, something else has left text that is not JSON
\* under one of the keys.
StorageCorrupted ==
  /\ phase = "mounting"
  /\ storageFault # "unavailable"
  /\ \/ /\ store.pokemons # <<MalformedListText>>
        /\ store' = [store EXCEPT !.pokemons = <<MalformedListText>>]
     \/ /\ store.pokemon_pagination # <<MalformedPaginationText>>
        /\ store' = [store EXCEPT !.pokemon_pagination = <<MalformedPaginationText>>]
  /\ UNCHANGED <<coordinator, phase, allPokemon, paginationState, currentOffset,
                 skipQuery, isInitialLoading, error, isLoadingMore,
                 pokemonListData, queryError, isFetching, fetchArgs, superseded,
                 storageFault, now, lastOp, triggerVars,
                 boundary>>

\* ------------------------------------------------------ Visibility Trigger
\* The sentinel <div ref={loadingRef}> is in the document: the page renders
\* the skeleton while isInitialLoading, and the error alert alone while there
\* is an error and no item.
SentinelRendered ==
  /\ phase \in {"mounting", "mounted"}
  /\ ~isInitialLoading
  /\ ~(error # Null /\ Len(allPokemon) = 0)

\* The deps of the trigger's layout effect: the Home page built on the hooks
\* passes [allPokemon.length, isFetching, isLoadingMore] to useInfiniteScroll,
\* the Home page with the inline observer uses [allPokemon.length].
Deps ==
  IF coordinator = "Home"
  THEN <<Len(allPokemon), FALSE, FALSE>>
  ELSE <<Len(allPokemon), isFetching, isLoadingMore>>

\* Mutant: disconnect() leaves the observer observing.
Disconnect_KeepsObserving(t) == t

\* observerRef.current.disconnect(): the observer stops observing and drops
\* what it had queued.
Disconnect(t) ==
  IF t.observerRef = "connected"
  THEN [t EXCEPT !.observerRef = "disconnected", !.connected = @ - 1,
                 !.entries = <<>>]
  ELSE t

\* Mutant: the effect returns a cleanup that does not disconnect.
Cleanup_Nothing(t) == t

\* The cleanup the layout effect returns:
\* if (observerRef.current) observerRef.current.disconnect().
Cleanup(t) == IF t.observerRef # "null" THEN Disconnect(t) ELSE t

\* detach: React runs the cleanup of the last effect run, if that run returned
\* one, before the next run and at unmount.
Detach(t) ==
  IF t.hasCleanup THEN [Cleanup(t) EXCEPT !.hasCleanup = FALSE] ELSE t

\* attach, the body of the layout effect: nothing without a target; otherwise
\* the observer in the ref is disconnected, a new one is created and observes
\* the target, which queues its first entry.
Attach(t, target, visible, callback) ==
  IF ~target
  THEN [t EXCEPT !.started = 0]
  ELSE LET d == IF t.observerRef # "null" THEN Disconnect(t) ELSE t
       IN [d EXCEPT !.observerRef = "connected",
                    !.connected = @ + 1,
                    !.entries = <<visible>>,
                    !.observed = TRUE,
                    !.subscribedWith = callback,
                    !.hasCleanup = TRUE,
                    !.started = 1]

\* The trigger after the render that follows a state change: the layout
\* effect runs again when its deps have changed; an observer that is left in
\* place observes the sentinel only while that element stays in the document.
AfterRender(t) ==
  IF Deps' # Deps
  THEN Attach(Detach(t), SentinelRendered', sentinelVisible, LoadMoreClosure')
  ELSE [t EXCEPT !.started = 0, !.observed = @ /\ SentinelRendered']

\* The render and the effects that follow a state change of the page: the ref
\* takes the callback of this render (onIntersectRef.current = onIntersect in
\* the hook, the effect on [loadMoreData] in the inline copy).
Rendered ==
  /\ onIntersectRef' = LoadMoreClosure'
  /\ trigger' = AfterRender(trigger)
  /\ UNCHANGED <<sentinelVisible, boundary>>

\* Mutant: the observer calls the callback it was created with.
InvokedCallback_AtSubscription == trigger.subscribedWith

\* onIntersectRef.current?.() / loadMoreDataRef.current?.()
InvokedCallback == onIntersectRef

\* The guards of loadMoreData as the closure c sees them.
ClosureGuard(c) ==
  /\ ~c.isFetching
  /\ ~c.isLoadingMore
  /\ c.hasMore
  /\ c.skipQuery
  /\ ~c.isInitialLoading

\* The browser delivers the queued entries to the observer's callback:
\* if (entries[0].isIntersecting) the callback in the ref is called.
ObserverNotifies ==
  /\ trigger.observerRef = "connected" \/ trigger.connected > 0
  /\ trigger.entries # <<>>
  /\ currentOffset < MaxPages * ITEMS_PER_PAGE
  /\ IF trigger.entries[1]
     THEN /\ lastOp' = "onIntersect"
          /\ IF ClosureGuard(InvokedCallback)
             THEN /\ isLoadingMore' = TRUE
                  /\ currentOffset' = NextOffset(InvokedCallback.currentOffset)
                  /\ skipQuery' = FALSE
                  /\ QueryAfter(FALSE, currentOffset')
             ELSE /\ UNCHANGED <<isLoadingMore, currentOffset, skipQuery>>
                  /\ QueryIdle
     ELSE /\ UNCHANGED <<lastOp, isLoadingMore, currentOffset, skipQuery>>
          /\ QueryIdle
  /\ UNCHANGED <<storageFault, coordinator, phase, allPokemon, paginationState,
                 isInitialLoading, error, store, now>>
  /\ onIntersectRef' = LoadMoreClosure'
  /\ trigger' = AfterRender([trigger EXCEPT
                   !.entries = <<>>,
                   !.invoked = IF trigger.entries[1] THEN 1 ELSE 0])
  /\ UNCHANGED <<sentinelVisible, boundary>>

\* The user scrolls: the sentinel enters or leaves the viewport, and an
\* observer that observes it queues an entry.
Scroll ==
  /\ phase = "mounted"
  /\ SentinelRendered
  /\ Len(trigger.entries) < MaxEntries
  /\ sentinelVisible' = ~sentinelVisible
  /\ trigger' = IF trigger.observerRef = "connected" /\ trigger.observed
                THEN [trigger EXCEPT !.entries = Append(@, sentinelVisible'),
                                     !.started = 0]
                ELSE [trigger EXCEPT !.started = 0]
  /\ UNCHANGED <<coordinator, phase, allPokemon, paginationState, currentOffset,
                 skipQuery, isInitialLoading, error, isLoadingMore,
                 pokemonListData, queryError, isFetching, fetchArgs, superseded, store,
                 storageFault, now, lastOp, onIntersectRef, boundary>>

\* The page is left (the route changes): the component unmounts and React
\* runs the cleanup of the layout effect.
Unmount ==
  /\ phase = "mounted"
  /\ phase' = "unmounted"
  /\ lastOp' = "unmount"
  /\ trigger' = [Detach(trigger) EXCEPT !.started = 0]
  /\ UNCHANGED <<coordinator, allPokemon, paginationState, currentOffset,
                 skipQuery, isInitialLoading, error, isLoadingMore,
                 pokemonListData, queryError, isFetching, fetchArgs, superseded, store,
                 storageFault, now, onIntersectRef, sentinelVisible, boundary>>

\* The coordinator on its own, as the hook's tests drive it: no sentinel is
\* rendered, the visibility trigger stays as it is.
Next ==
  \/ Initialize /\ UNCHANGED <<triggerVars, boundary>>
  \/ (\E page \in Pages : FetchFulfilled(page)) /\ UNCHANGED <<triggerVars, boundary>>
  \/ (\E err \in QueryErrors : FetchRejected(err)) /\ UNCHANGED <<triggerVars, boundary>>
  \/ LoadMoreData /\ UNCHANGED <<triggerVars, boundary>>
  \/ HandleRefresh /\ UNCHANGED <<triggerVars, boundary>>
  \/ HandleRetryLoadMore /\ UNCHANGED <<triggerVars, boundary>>
  \/ Tick /\ UNCHANGED <<triggerVars, boundary>>
  \/ Reload /\ UNCHANGED <<triggerVars, boundary>>
  \/ (\E page \in Pages, offset \in superseded : SupersededSettles(page, offset))
       /\ UNCHANGED <<triggerVars, boundary>>

Spec == Init /\ [][Next]_vars

\* The coordinator with the collaborator's response cache: a refresh finds the
\* cached response or (the entry has expired) makes the collaborator issue the
\* request; with the gate open and the query settled nothing is issued.
NextCached ==
  \/ Initialize /\ UNCHANGED <<triggerVars, boundary>>
  \/ (\E page \in Pages : FetchFulfilled(page)) /\ UNCHANGED <<triggerVars, boundary>>
  \/ (\E err \in QueryErrors : FetchRejected(err)) /\ UNCHANGED <<triggerVars, boundary>>
  \/ LoadMoreData /\ UNCHANGED <<triggerVars, boundary>>
  \/ (skipQuery \/ isFetching) /\ HandleRefresh /\ UNCHANGED <<triggerVars, boundary>>
  \/ HandleRefreshCached /\ UNCHANGED <<triggerVars, boundary>>
  \/ HandleRetryLoadMore /\ UNCHANGED <<triggerVars, boundary>>
  \/ Tick /\ UNCHANGED <<triggerVars, boundary>>
  \/ Reload /\ UNCHANGED <<triggerVars, boundary>>
  \/ (\E page \in Pages, offset \in superseded : SupersededSettles(page, offset))
       /\ UNCHANGED <<triggerVars, boundary>>

SpecCached == Init /\ [][NextCached]_vars

\* Pages of at most one well-formed resource.
SmallPages ==
  {p \in Pages : /\ Len(p.results) <= 1
                 /\ \A i \in 1..Len(p.results) : p.results[i].name # "missingno"}

\* The Home page: the coordinator with the visibility trigger on the sentinel
\* below the list.  loadMoreData is called by the observer only, the two Retry
\* buttons are there while their alert is shown; small pages, one kind of
\* error, a clock that stands still.  A reload also discards the observer.
NextScroll ==
  \/ Initialize /\ Rendered
  \/ phase = "mounted" /\ (\E page \in SmallPages : FetchFulfilled(page)) /\ Rendered
  \/ phase = "mounted" /\ FetchRejected("FETCH_ERROR") /\ Rendered
  \/ ObserverNotifies
  \/ error # Null /\ Len(allPokemon) = 0 /\ HandleRefresh /\ Rendered
  \/ error # Null /\ Len(allPokemon) > 0 /\ HandleRetryLoadMore /\ Rendered
  \/ Scroll
  \/ Unmount
  \/ /\ Reload
     /\ onIntersectRef' = LoadMoreClosure'
     /\ trigger' = [observerRef |-> "null", connected |-> 0, hasCleanup |-> FALSE,
                    entries |-> <<>>, observed |-> FALSE,
                    subscribedWith |-> LoadMoreClosure', started |-> 0,
                    invoked |-> 0]
     /\ UNCHANGED <<sentinelVisible, boundary>>

SpecScroll == Init /\ [][NextScroll]_vars

\* The coordinator over a localStorage that can fail and hold malformed text:
\* the hook, with small pages, one kind of error and a clock that stands still.
NextFaulty ==
  \/ Initialize /\ UNCHANGED <<triggerVars, boundary>>
  \/ (\E page \in SmallPages : FetchFulfilled(page)) /\ UNCHANGED <<triggerVars, boundary>>
  \/ FetchRejected("FETCH_ERROR") /\ UNCHANGED <<triggerVars, boundary>>
  \/ LoadMoreData /\ UNCHANGED <<triggerVars, boundary>>
  \/ HandleRefresh /\ UNCHANGED <<triggerVars, boundary>>
  \/ HandleRetryLoadMore /\ UNCHANGED <<triggerVars, boundary>>
  \/ Reload /\ UNCHANGED <<triggerVars, boundary>>
  \/ StorageFaultChanges
  \/ StorageCorrupted

InitFaulty == Init /\ coordinator = "usePokemonList"

SpecFaulty == InitFaulty /\ [][NextFaulty]_vars

\* The Home page left alone with the sentinel in the viewport: nobody scrolls,
\* every fetch succeeds, the clock stands still; the page may be reloaded.
\* The mount effect runs, the collaborator answers every request and the
\* browser delivers the entries an observer has queued.
MountEffect == Initialize /\ Rendered

FetchSucceeds ==
  phase = "mounted" /\ (\E page \in SmallPages : FetchFulfilled(page)) /\ Rendered

PageReloaded ==
  /\ Reload
  /\ onIntersectRef' = LoadMoreClosure'
  /\ trigger' = [observerRef |-> "null", connected |-> 0, hasCleanup |-> FALSE,
                 entries |-> <<>>, observed |-> FALSE,
                 subscribedWith |-> LoadMoreClosure', started |-> 0,
                 invoked |-> 0]
  /\ UNCHANGED <<sentinelVisible, boundary>>

NextVisible ==
  \/ MountEffect
  \/ FetchSucceeds
  \/ ObserverNotifies
  \/ PageReloaded

SpecVisible ==
  /\ Init
  /\ [][NextVisible]_vars
  /\ WF_vars(MountEffect)
  /\ WF_vars(FetchSucceeds)
  /\ WF_vars(ObserverNotifies)

\* The error boundary as its tests drive it: mounted around children, rendered
\* again with the same or with other children, unmounted.
NextBoundary ==
  \/ \E children \in ChildElements, nodeEnv \in NodeEnvs :
       BoundaryMount(children, nodeEnv)
  \/ \E children \in ChildElements : BoundaryRerender(children)
  \/ BoundaryUnmount

SpecBoundary == Init /\ [][NextBoundary]_vars

\* ======================================================================
\* Properties
\* ======================================================================
Ids(list) == {list[i].id : i \in 1..Len(list)}
BothCached(st) == st.pokemons # <<>> /\ st.pokemon_pagination # <<>>
NothingCached(st) == st.pokemons = <<>> /\ st.pokemon_pagination = <<>>
FulfilStep == \E page \in Pages : FetchFulfilled(page)

\* C1: for every sequence of successful paged fetches, whatever the pages
\* hold, the accumulated list never contains two items with the same id.
C1_NoDuplicateIds ==
  \A i, j \in 1..Len(allPokemon) : i # j => allPokemon[i].id # allPokemon[j].id

\* C2: after every settled fetch, in the hook and in the Home page alike,
\* paginationState.totalLoaded equals the length of the accumulated list.
C2_TotalLoadedIsLength ==
  lastOp \in {"fetchFulfilled", "fetchRejected"}
    => paginationState.totalLoaded = Len(allPokemon)

\* C3: a fetch that settles successfully at offset 0 leaves the accumulated
\* list equal to the parsed page, in page order, whatever the list was before.
C3_OffsetZeroReplaces ==
  [][(FulfilStep /\ currentOffset = 0)
       => allPokemon' = ParsePage(pokemonListData'[1].results)]_vars

C3_Witness ==
  /\ lastOp = "fetchFulfilled"
  /\ currentOffset = 0
  /\ Len(allPokemon) = 2
  /\ allPokemon[1].id = 2
  /\ allPokemon[2].id = 1

\* C4: a fetch that settles successfully at an offset greater than 0 keeps
\* the previous list as a prefix and appends after it exactly the page items
\* whose id was not in the previous list, in page order.
C4_AppendsUnseen ==
  [][(FulfilStep /\ currentOffset > 0)
       => LET parsed == ParsePage(pokemonListData'[1].results)
              unseen == SelectSeq(parsed, LAMBDA p : p.id \notin Ids(allPokemon))
          IN /\ Len(allPokemon') = Len(allPokemon) + Len(unseen)
             /\ SubSeq(allPokemon', 1, Len(allPokemon)) = allPokemon
             /\ SubSeq(allPokemon', Len(allPokemon) + 1, Len(allPokemon')) = unseen]_vars

\* Scenario B: [1, 2] in the list, the next page holds 2 again and a new item.
C4_Witness ==
  /\ lastOp = "fetchFulfilled"
  /\ currentOffset > 0
  /\ Len(allPokemon) = 3
  /\ Len(pokemonListData[1].results) = 2
  /\ ToCached(pokemonListData[1].results[1]).id = allPokemon[2].id
  /\ ToCached(pokemonListData[1].results[2]).id = allPokemon[3].id
  /\ C1_NoDuplicateIds

\* C5: loadMore() changes nothing (offset, gate, isLoadingMore, list,
\* pagination, error, cache, and the query) when a fetch is in progress,
\* isLoadingMore is set, hasMore is false, the gate is open, or the initial
\* load has not completed.
C5_LoadMoreNoOp ==
  [][(LoadMoreData /\ (\/ isFetching
                       \/ isLoadingMore
                       \/ ~paginationState.hasMore
                       \/ ~skipQuery
                       \/ isInitialLoading))
       => UNCHANGED <<coordinatorVars, pokemonListData, queryError, isFetching,
                      fetchArgs>>]_vars

C5_Witness ==
  /\ lastOp = "loadMoreData"
  /\ ~paginationState.hasMore
  /\ ~isLoadingMore
  /\ skipQuery
  /\ Len(allPokemon) > 0

\* C6: when every guard of loadMore() holds, loadMore() sets isLoadingMore,
\* advances currentOffset by ITEMS_PER_PAGE and opens the gate, so that a
\* fetch is issued at the new offset; list and paginationState stay as they were.
C6_LoadMoreAdvances ==
  [][(LoadMoreData /\ ~isFetching /\ ~isLoadingMore /\ paginationState.hasMore
        /\ skipQuery /\ ~isInitialLoading)
       => /\ isLoadingMore'
          /\ currentOffset' = currentOffset + 20
          /\ ~skipQuery'
          /\ isFetching'
          /\ fetchArgs' = currentOffset + 20
          /\ UNCHANGED <<allPokemon, paginationState, error, store>>]_vars

C6_Witness ==
  /\ lastOp = "loadMoreData"
  /\ isLoadingMore
  /\ currentOffset = 40
  /\ fetchArgs = 40
  /\ isFetching

\* C7: at initialization, when both cache entries are present and
\* now - lastFetchTime is less than 5 minutes, list and pagination state are
\* taken from the cache, currentOffset is currentPage * 20, isInitialLoading
\* is false, the gate stays closed, and no fetch is issued before a later
\* loadMore() (retryLoadMore() calls it) or refresh().
C7_HydratesFromFreshCache ==
  [][/\ (Initialize /\ BothCached(store)
           /\ now - store.pokemon_pagination[1].lastFetchTime < 5 * 60 * 1000)
        => /\ allPokemon' = store.pokemons[1]
           /\ paginationState' = store.pokemon_pagination[1]
           /\ currentOffset' = store.pokemon_pagination[1].currentPage * 20
           /\ ~isInitialLoading'
           /\ skipQuery'
           /\ ~isFetching'
           /\ fetchArgs' = -1
           /\ store' = store
     /\ (phase = "mounted" /\ fetchArgs = -1 /\ skipQuery /\ fetchArgs' # -1)
        => lastOp' \in {"loadMoreData", "handleRetryLoadMore", "handleRefresh"}]_vars

C7_Witness ==
  /\ lastOp = "initialize: cache used"
  /\ skipQuery
  /\ ~isFetching
  /\ ~isInitialLoading
  /\ currentOffset = 20
  /\ Len(allPokemon) = 2
  /\ now - paginationState.lastFetchTime = 5 * 60 * 1000 - 1

\* C8: at initialization, when the cache is absent or stale (age of 5 minutes
\* or more), no cached data is used, the stale entries are cleared,
\* currentOffset is 0, the gate is opened so that a fetch at offset 0 is
\* issued, and isInitialLoading is false.
C8_StaleOrAbsentCacheFetches ==
  [][(Initialize
        /\ (\/ ~BothCached(store)
            \/ now - store.pokemon_pagination[1].lastFetchTime >= 5 * 60 * 1000))
       => /\ allPokemon' = <<>>
          /\ paginationState' = ZeroPagination
          /\ BothCached(store) => NothingCached(store')
          /\ currentOffset' = 0
          /\ ~skipQuery'
          /\ isFetching'
          /\ fetchArgs' = 0
          /\ ~isInitialLoading']_vars

\* Scenario C: the stale cache has just been cleared by the mount effect.
C8_Witness ==
  /\ lastOp = "initialize: cache cleared"
  /\ isFetching
  /\ fetchArgs = 0
  /\ NothingCached(store)
  /\ now = StartTime + 5 * 60 * 1000

\* C9: after a successful settlement at offset o with page p, currentPage is
\* floor(o / 20), hasMore is true exactly when p.next is not null, and both
\* cache entries hold what was just computed.
C9_PaginationAfterSettle ==
  lastOp = "fetchFulfilled"
    => /\ paginationState.currentPage * 20 <= currentOffset
       /\ currentOffset < (paginationState.currentPage + 1) * 20
       /\ paginationState.hasMore = (pokemonListData[1].next # Null)
       /\ store.pokemons = <<JsonOfList(allPokemon)>>
       /\ store.pokemon_pagination = <<JsonOfPagination(paginationState)>>

\* Scenario A: the first fetch returns two items and a next cursor.
C9_Witness ==
  /\ lastOp = "fetchFulfilled"
  /\ currentOffset = 0
  /\ paginationState.currentPage = 0
  /\ paginationState.totalLoaded = 2
  /\ paginationState.hasMore
  /\ BothCached(store)

\* C10: refresh(), in whatever state it is called, leaves an empty list, the
\* zero pagination state, no error, offset 0, the gate open, isLoadingMore
\* false and both cache entries removed.
C10_RefreshResets ==
  lastOp = "handleRefresh"
    => /\ allPokemon = <<>>
       /\ paginationState =
            [currentPage |-> 0, totalLoaded |-> 0, hasMore |-> TRUE, lastFetchTime |-> 0]
       /\ error = Null
       /\ currentOffset = 0
       /\ ~skipQuery
       /\ ~isLoadingMore
       /\ NothingCached(store)

\* A refresh after a page had been fetched: the request at offset 0 is in flight.
C10_Witness ==
  /\ lastOp = "handleRefresh"
  /\ pokemonListData # <<>>
  /\ fetchArgs = 0
  /\ isFetching

\* C11: every refresh() is followed by a fetch at offset 0 (also when the
\* offset was 0 already), and the list is never empty with the gate open and
\* no fetch pending.
C11_RefreshRefetches ==
  /\ lastOp = "handleRefresh" => (isFetching /\ fetchArgs = 0)
  /\ phase = "mounted" => ~(allPokemon = <<>> /\ ~skipQuery /\ ~isFetching)

\* C12: when a fetch fails, whatever the error, lastError is the fixed
\* message "Failed to fetch Pokemon data", the gate is closed and
\* isLoadingMore is false.
C12_FailureSetsFixedMessage ==
  lastOp = "fetchRejected"
    => /\ error = "Failed to fetch Pokemon data"
       /\ skipQuery
       /\ ~isLoadingMore

\* A fetch started by loadMore was rejected with an HTTP error status.
C12_Witness ==
  /\ lastOp = "fetchRejected"
  /\ queryError = "500"
  /\ currentOffset = 20
  /\ Len(allPokemon) > 0

\* C14: retryLoadMore() always clears lastError and otherwise does what
\* loadMore() does in the same state: when every guard of loadMore() holds it
\* sets isLoadingMore, advances the offset by one page and opens the gate, so
\* that a fetch is issued; when a guard fails it changes nothing but the error.
C14_RetryIsLoadMoreAfterClear ==
  [][HandleRetryLoadMore
       => /\ error' = Null
          /\ IF /\ ~isFetching
                /\ ~isLoadingMore
                /\ paginationState.hasMore
                /\ skipQuery
                /\ ~isInitialLoading
             THEN /\ isLoadingMore'
                  /\ currentOffset' = currentOffset + 20
                  /\ ~skipQuery'
                  /\ isFetching'
                  /\ fetchArgs' = currentOffset + 20
                  /\ UNCHANGED <<allPokemon, paginationState, isInitialLoading, store>>
             ELSE UNCHANGED <<allPokemon, paginationState, currentOffset,
                              skipQuery, isInitialLoading, isLoadingMore, store,
                              pokemonListData, queryError, isFetching, fetchArgs>>]_vars

\* retryLoadMore() has started a fetch from a list of loaded items.
C14_Witness ==
  /\ lastOp = "handleRetryLoadMore"
  /\ error = Null
  /\ isFetching
  /\ isLoadingMore
  /\ fetchArgs = 40
  /\ Len(allPokemon) > 0

\* C15: a cache write or clear that fails never reaches the caller and never
\* changes the in-memory result: a fetch that settles successfully while
\* setItem throws leaves the list, paginationState and the flags as the
\* merge computes them, with lastError null and the component mounted; a
\* refresh while removeItem throws leaves the reset state.
C15_CacheFailureIsSilent ==
  [][/\ ((\E page \in Pages : FetchFulfilled(page)) /\ storageFault \in StorageFaults)
        => LET page == pokemonListData'[1]
               parsed == ParsePage(page.results)
               unseen == SelectSeq(parsed, LAMBDA p : p.id \notin Ids(allPokemon))
           IN /\ allPokemon' = IF currentOffset = 0 THEN parsed
                                ELSE allPokemon \o unseen
              /\ paginationState' =
                   [currentPage |-> currentOffset \div 20,
                    totalLoaded |-> Len(allPokemon'),
                    hasMore |-> page.next # Null,
                    lastFetchTime |-> now]
              /\ skipQuery'
              /\ ~isLoadingMore'
              /\ ~isFetching'
              /\ error' = Null
              /\ phase' = phase
     /\ (HandleRefresh /\ storageFault = "unavailable")
        => /\ allPokemon' = <<>>
           /\ paginationState' = ZeroPagination
           /\ currentOffset' = 0
           /\ ~skipQuery'
           /\ error' = Null
           /\ phase' = phase]_vars

\* A second page has been merged while every setItem threw: the cache still
\* holds the list of the first page.
C15_Witness ==
  /\ lastOp = "fetchFulfilled"
  /\ storageFault = "quota exceeded"
  /\ phase = "mounted"
  /\ currentOffset = 20
  /\ Len(allPokemon) = 2
  /\ store.pokemons # <<>>
  /\ Len(store.pokemons[1]) = 1
  /\ error = Null

\* C16: loadList() and loadPaginationState() return "absent" when the key is
\* missing, when the read throws and when the stored text is malformed;
\* initialization then takes the no-cache path: nothing is hydrated, a fetch
\* at offset 0 is issued and lastError stays null.
C16_UnreadableCacheIsAbsent ==
  [][LET listUnreadable ==
           \/ storageFault = "unavailable"
           \/ store.pokemons = <<>>
           \/ store.pokemons = <<MalformedListText>>
         paginationUnreadable ==
           \/ storageFault = "unavailable"
           \/ store.pokemon_pagination = <<>>
           \/ store.pokemon_pagination = <<MalformedPaginationText>>
     IN /\ (Initialize /\ listUnreadable) => LoadPokemonList(store) = <<>>
        /\ (Initialize /\ paginationUnreadable) => LoadPaginationState(store) = <<>>
        /\ (Initialize /\ (listUnreadable \/ paginationUnreadable))
           => /\ allPokemon' = <<>>
              /\ paginationState' = ZeroPagination
              /\ currentOffset' = 0
              /\ ~skipQuery'
              /\ isFetching'
              /\ fetchArgs' = 0
              /\ ~isInitialLoading'
              /\ error' = Null
              /\ phase' = "mounted"]_vars

\* The list item is malformed text next to a well-formed pagination item: the
\* mount effect has issued the fetch at offset 0.
C16_Witness ==
  /\ lastOp = "initialize: no cache"
  /\ store.pokemons = <<MalformedListText>>
  /\ store.pokemon_pagination # <<>>
  /\ store.pokemon_pagination # <<MalformedPaginationText>>
  /\ storageFault = "none"
  /\ isFetching
  /\ fetchArgs = 0
  /\ error = Null

\* C17: round trip of the cache store: right after the coordinator has saved
\* the list and the pagination state, loadList() returns a value equal to the
\* saved list and loadPaginationState() a value equal to the saved state.
C17_CacheRoundTrip ==
  lastOp = "fetchFulfilled"
    => /\ LoadPaginationState(store) = <<paginationState>>
       /\ LoadPokemonList(store) = <<allPokemon>>

\* C13: after a fetch failure no fetch is issued automatically: while
\* lastError is set, a fetch starts only when the caller invokes
\* retryLoadMore() or refresh(), never from a sentinel-visibility event.
C13_NoAutomaticFetchAfterFailure ==
  [][(error # Null /\ ~isFetching /\ isFetching')
       => lastOp' \in {"handleRetryLoadMore", "handleRefresh"}]_vars

\* C18: when the sentinel becomes visible the trigger invokes the callback
\* most recently supplied by the caller, not the one that was current when
\* the observer was subscribed, also when the callback has changed without a
\* change of deps: the ref holds the callback of the latest render, and an
\* intersecting entry has the effect of that callback in the current state.
C18_LatestCallbackInvoked ==
  [][/\ onIntersectRef' = LoadMoreClosure'
     /\ (ObserverNotifies /\ trigger.entries[1])
        => IF /\ ~isFetching
              /\ ~isLoadingMore
              /\ paginationState.hasMore
              /\ skipQuery
              /\ ~isInitialLoading
           THEN /\ isLoadingMore'
                /\ currentOffset' = currentOffset + 20
                /\ ~skipQuery'
                /\ isFetching'
                /\ fetchArgs' = currentOffset + 20
           ELSE UNCHANGED <<isLoadingMore, currentOffset, skipQuery, isFetching,
                            fetchArgs>>]_vars

\* The inline observer was subscribed when the first page arrived; the
\* callback has changed since (a fetch at offset 20 was started and has
\* failed) and the observer has called the current one.
C18_Witness ==
  /\ lastOp = "onIntersect"
  /\ coordinator = "Home"
  /\ trigger.observerRef = "connected"
  /\ trigger.subscribedWith.currentOffset = 0
  /\ currentOffset = 40
  /\ isFetching

\* C19: each change of deps while a sentinel is bound disconnects the existing
\* observer before a new one is created and attached to the current sentinel:
\* at most one observer is connected at any time, and exactly one observation
\* is started per change of deps (none without a change).
C19_OneObserverPerDepsChange ==
  [][/\ trigger'.connected <= 1
     /\ (Deps' # Deps /\ SentinelRendered')
        => /\ trigger'.started = 1
           /\ trigger'.connected = 1
           /\ trigger'.observerRef = "connected"
           /\ trigger'.observed
     /\ (Deps' = Deps) => trigger'.started = 0]_vars

\* The observer that was connected while the second page was fetched has been
\* replaced when the page arrived.
C19_Witness ==
  /\ lastOp = "fetchFulfilled"
  /\ Len(allPokemon) = 2
  /\ trigger.started = 1
  /\ trigger.connected = 1
  /\ trigger.entries = <<sentinelVisible>>

\* C20: detach (at unmount or before a re-subscription) cancels the active
\* observation, so that no callback is invoked after unmount; it is
\* idempotent, and does nothing when no subscription exists.
C20_DetachCancels ==
  /\ phase = "unmounted"
       => /\ trigger.connected = 0
          /\ trigger.observerRef # "connected"
          /\ lastOp = "unmount"
  /\ Detach(Detach(trigger)) = Detach(trigger)
  /\ Cleanup(Cleanup(trigger)) = Cleanup(trigger)
  /\ trigger.observerRef = "null"
       => (Detach(trigger) = trigger /\ Cleanup(trigger) = trigger)

\* The page was left while an observer was observing the visible sentinel,
\* its first entry not yet delivered.
C20_Witness ==
  /\ phase = "unmounted"
  /\ trigger.observerRef = "disconnected"
  /\ trigger.entries = <<>>
  /\ sentinelVisible
  /\ skipQuery
  /\ paginationState.hasMore
  /\ Len(allPokemon) > 0

\* C21: a notification whose latest entry reports the sentinel as
\* intersecting invokes the callback exactly once, and a notification in
\* which no entry is intersecting invokes it not at all (each notification
\* is one step, so invocations do not overlap).
C21_OncePerIntersectingNotification ==
  [][ ObserverNotifies
      => /\ trigger.entries[Len(trigger.entries)] => trigger'.invoked = 1
         /\ (\A i \in 1..Len(trigger.entries) : ~trigger.entries[i])
              => trigger'.invoked = 0 ]_vars

\* C22: once a child has thrown, the boundary instance shows the error alert
\* in every later render, whatever children it is given, for as long as it
\* is mounted.
C22_ErrorStateAbsorbing ==
  [][ boundary.mounted /\ boundary.state.hasError /\ boundary'.mounted
      => /\ boundary'.state.hasError
         /\ boundary'.state.error = boundary.state.error
         /\ boundary'.output.shown = "alert" ]_vars

\* A boundary that caught an error has since been rendered with children
\* that do not throw.
C22_Witness ==
  /\ boundary.mounted
  /\ boundary.state.hasError
  /\ boundary.renders >= 2
  /\ boundary.children.component = "WorkingComponent"
  /\ boundary.output.shown = "alert"

\* C23: at most one list fetch is in flight under initialization, loadMore,
\* retryLoadMore and settlements: while a fetch is in flight the gate is
\* open and the request is the one for currentOffset; no step other than a
\* refresh issues a request while one is in flight; the gate is opened only
\* when no fetch is in progress, and every settlement closes it.
C23_AtMostOneFetchInFlight ==
  [][ ~HandleRefresh
      => /\ isFetching => ~skipQuery /\ fetchArgs = currentOffset
         /\ isFetching /\ isFetching'
              => fetchArgs' = fetchArgs /\ currentOffset' = currentOffset
         /\ skipQuery /\ ~skipQuery' => ~isFetching /\ isFetching'
         /\ isFetching /\ ~isFetching' => skipQuery' ]_vars

\* loadMore() was called while the first fetch was in flight, and that fetch
\* is still the one in flight.
C23_Witness ==
  /\ lastOp = "loadMoreData"
  /\ isFetching
  /\ fetchArgs = 0
  /\ currentOffset = 0

C25_NoFetchWithoutNextPage ==
  [][ /\ phase = "mounted"
      /\ ~paginationState.hasMore
      /\ ~HandleRefresh
      /\ phase' = "mounted"
      => /\ ~paginationState'.hasMore
         /\ currentOffset' = currentOffset
         /\ UNCHANGED <<isFetching, fetchArgs, skipQuery>> ]_vars

\* loadMore() was called after a page without a next cursor had been merged.
C25_Witness ==
  /\ lastOp \in {"loadMoreData", "handleRetryLoadMore"}
  /\ ~paginationState.hasMore
  /\ ~isFetching
  /\ Len(allPokemon) > 0

\* C26 (as claimed): after a load-more fetch at offset k has failed,
\* retryLoadMore() issues the fetch for the same offset k, so that no page
\* is skipped.
C26_RetryRefetchesFailedPage ==
  [][ /\ queryError # Null
      /\ error # Null
      /\ ~isFetching
      /\ fetchArgs > 0
      /\ HandleRetryLoadMore
      /\ isFetching'
      => /\ fetchArgs' = fetchArgs
         /\ currentOffset' = currentOffset ]_vars

\* C27: a failed fetch leaves the list, paginationState and both cache
\* entries as they were when the fetch was started: no step taken during the
\* fetch other than a refresh changes them, and the failure handler changes
\* lastError, the gate and isLoadingMore only.
C27_FailureKeepsData ==
  [][ /\ isFetching /\ isFetching' /\ ~HandleRefresh
           => UNCHANGED <<allPokemon, paginationState, store>>
      /\ (\E err \in QueryErrors : FetchRejected(err))
           => /\ UNCHANGED <<allPokemon, paginationState, store, currentOffset,
                             isInitialLoading>>
              /\ error' # Null
              /\ skipQuery'
              /\ ~isLoadingMore' ]_vars

\* A load-more fetch has failed with items in the list and in the cache.
C27_Witness ==
  /\ lastOp = "fetchRejected"
  /\ Len(allPokemon) > 0
  /\ BothCached(store)
  /\ currentOffset > 0
  /\ error # Null

\* C28 (as claimed): whenever both cache entries can be read, the cached
\* totalLoaded is the length of the cached list, whatever cache writes or
\* removals have failed.
C28_CacheEntriesAgree ==
  LET cachedPokemon == LoadPokemonList(store)
      cachedPagination == LoadPaginationState(store)
  IN cachedPokemon # <<>> /\ cachedPagination # <<>>
       => cachedPagination[1].totalLoaded = Len(cachedPokemon[1])

\* C29 (as claimed): with the sentinel visible and every fetch succeeding,
\* the page never stays idle with hasMore true: from every such state the
\* next fetch is started (or the page is reloaded).
C29_KeepsLoading ==
  (/\ phase = "mounted"
   /\ ~isFetching
   /\ paginationState.hasMore
   /\ error = Null
   /\ sentinelVisible
   /\ SentinelRendered
   /\ currentOffset < MaxPages * ITEMS_PER_PAGE)
    ~> (isFetching \/ ~paginationState.hasMore \/ phase # "mounted")

====
